---- MODULE Spec2Model ----
(***************************************************************************)
(* A model of bitcash/network/APIs/BitcoinDotComAPI.py: the client of a    *)
(* rest.bitcoin.com style REST interface.                                  *)
(*                                                                         *)
(* Python strings that the code slices, concatenates or formats are        *)
(* sequences of one-character strings.  Opaque strings (addresses inside   *)
(* a response, scripts, transaction ids of a response) are TLA+ strings.   *)
(* A JSON value whose type the code does not fix is a tagged record        *)
(* [t |-> <type>, ...] with the value in a field of its own.               *)
(***************************************************************************)
EXTENDS Integers, Sequences, FiniteSets, TLC

VARIABLES self, last

vars == <<self, last>>

(***************************************************************************)
(* Bounds of the model.                                                    *)
(***************************************************************************)
MaxVin == 2
MaxVout == 2
MaxUtxos == 2

(***************************************************************************)
(* Program constants.                                                      *)
(***************************************************************************)
BCH_TO_SAT_MULTIPLIER == 100000000

\* decimal.getcontext().prec of a thread that never changed its context:
\* the precision every Decimal operation of the module rounds to.
DecimalPrec == 28

Min(a, b) == IF a < b THEN a ELSE b
Max(a, b) == IF a > b THEN a ELSE b

(***************************************************************************)
(* Python string operations.                                               *)
(***************************************************************************)
\* s[:n]
Prefix(s, n) == SubSeq(s, 1, Min(n, Len(s)))

\* s[-n:]
Suffix(s, n) == SubSeq(s, Max(1, Len(s) - n + 1), Len(s))

Str_http == <<"h", "t", "t", "p">>
Str_v2 == <<"/", "v", "2", "/">>

\* str.format(*args) on a string of single characters.  Literal text is
\* copied; "{{" and "}}" give one brace; "{...}" is a replacement field
\* whose name is empty (automatic numbering) or the digit 0 (manual
\* numbering); the two numberings cannot be mixed; any other field name is
\* looked up among the keyword arguments, of which there are none.
\* mode: "none" | "auto" | "manual"; next: the next automatic index.
RECURSIVE FormatFrom(_, _, _, _, _, _)
FormatFrom(s, i, args, acc, mode, next) ==
    IF i > Len(s) THEN [ok |-> TRUE, v |-> acc]
    ELSE IF s[i] = "{" THEN
        IF i < Len(s) /\ s[i + 1] = "{"
        THEN FormatFrom(s, i + 2, args, Append(acc, "{"), mode, next)
        ELSE
            LET closes == {j \in (i + 1)..Len(s) : s[j] = "}"} IN
            IF closes = {} THEN [ok |-> FALSE, err |-> "ValueError"]
            ELSE
                LET j == CHOOSE k \in closes : \A m \in closes : k <= m
                    name == SubSeq(s, i + 1, j - 1)
                IN  IF \E k \in 1..Len(name) : name[k] = "{"
                    THEN [ok |-> FALSE, err |-> "ValueError"]
                    ELSE IF name = <<>> THEN
                        IF mode = "manual" THEN [ok |-> FALSE, err |-> "ValueError"]
                        ELSE IF next + 1 > Len(args) THEN [ok |-> FALSE, err |-> "IndexError"]
                        ELSE FormatFrom(s, j + 1, args, acc \o args[next + 1], "auto", next + 1)
                    ELSE IF name = <<"0">> THEN
                        IF mode = "auto" THEN [ok |-> FALSE, err |-> "ValueError"]
                        ELSE IF Len(args) < 1 THEN [ok |-> FALSE, err |-> "IndexError"]
                        ELSE FormatFrom(s, j + 1, args, acc \o args[1], "manual", next)
                    ELSE [ok |-> FALSE, err |-> "KeyError"]
    ELSE IF s[i] = "}" THEN
        IF i < Len(s) /\ s[i + 1] = "}"
        THEN FormatFrom(s, i + 2, args, Append(acc, "}"), mode, next)
        ELSE [ok |-> FALSE, err |-> "ValueError"]
    ELSE FormatFrom(s, i + 1, args, Append(acc, s[i]), mode, next)

Format(s, args) == FormatFrom(s, 1, args, <<>>, "none", 0)

(***************************************************************************)
(* The class: construction, PATHS, make_endpoint_url.                      *)
(***************************************************************************)
NoClient == [t |-> "none"]

isinstance_str(x) == x.t = "str"

\* __init__: the three assertions, in order (assertions enabled, as in a
\* run without -O); an AssertionError becomes InvalidEndpointURLProvided.  The result is the outcome of the call and,
\* when it returns, the object constructed.
\* A constructor that checks the prefix only.
BitcoinDotComAPI_NoSuffixCheck(network_endpoint) ==
    IF ~isinstance_str(network_endpoint)
    THEN [kind |-> "raise", err |-> "InvalidEndpointURLProvided"]
    ELSE IF Prefix(network_endpoint.v, 4) # Str_http
    THEN [kind |-> "raise", err |-> "InvalidEndpointURLProvided"]
    ELSE [kind |-> "return",
          val |-> [t |-> "BitcoinDotComAPI", network_endpoint |-> network_endpoint.v]]

BitcoinDotComAPI(network_endpoint) ==
    IF ~isinstance_str(network_endpoint)
    THEN [kind |-> "raise", err |-> "InvalidEndpointURLProvided"]
    ELSE IF Prefix(network_endpoint.v, 4) # Str_http
    THEN [kind |-> "raise", err |-> "InvalidEndpointURLProvided"]
    ELSE IF Suffix(network_endpoint.v, 4) # Str_v2
    THEN [kind |-> "raise", err |-> "InvalidEndpointURLProvided"]
    ELSE [kind |-> "return",
          val |-> [t |-> "BitcoinDotComAPI", network_endpoint |-> network_endpoint.v]]

PATHS ==
    ("unspent" :> <<"a","d","d","r","e","s","s","/","u","t","x","o","/","{","}">>)
    @@ ("address" :> <<"a","d","d","r","e","s","s","/","d","e","t","a","i","l","s","/","{","}">>)
    @@ ("raw-tx" :> <<"r","a","w","t","r","a","n","s","a","c","t","i","o","n","s","/",
                      "s","e","n","d","R","a","w","T","r","a","n","s","a","c","t","i","o","n","/","{","}">>)
    @@ ("tx-details" :> <<"t","r","a","n","s","a","c","t","i","o","n","/","d","e","t","a","i","l","s","/","{","}">>)

make_endpoint_url(obj, path) == obj.network_endpoint \o PATHS[path]

(***************************************************************************)
(* decimal.Decimal.  A Decimal is [digits, exponent] as in as_tuple(): the *)
(* coefficient's digits without leading zeros (<<0>> for zero) and the     *)
(* power of ten.  Every amount of a response is non-negative, so no sign   *)
(* is kept.  A number of a JSON text is [int, frac]: the digits before and *)
(* after the decimal point as written (frac empty: no point).              *)
(***************************************************************************)
RECURSIVE StripLeadingZeros(_)
StripLeadingZeros(d) ==
    IF Len(d) > 1 /\ d[1] = 0 THEN StripLeadingZeros(Tail(d)) ELSE d

Zeros(n) == [i \in 1..n |-> 0]

AllZero(d) == \A i \in 1..Len(d) : d[i] = 0

\* Decimal(text), and json's parse_float=Decimal on the number's text; an
\* integer of the JSON text arrives as an int, which Decimal() takes as it is.
DecimalOf(num) ==
    [digits |-> StripLeadingZeros(num.int \o num.frac), exponent |-> -Len(num.frac)]

RECURSIVE DigitsOf(_)
DigitsOf(n) == IF n < 10 THEN <<n>> ELSE Append(DigitsOf(n \div 10), n % 10)

\* The coefficient d times the natural number k, digit by digit from the
\* least significant one.
RECURSIVE MulDigitsFrom(_, _, _, _, _)
MulDigitsFrom(d, i, k, carry, acc) ==
    IF i = 0 THEN StripLeadingZeros(DigitsOf(carry) \o acc)
    ELSE LET t == d[i] * k + carry
         IN  MulDigitsFrom(d, i - 1, k, t \div 10, <<t % 10>> \o acc)

MulDigits(d, k) == MulDigitsFrom(d, Len(d), k, 0, <<>>)

\* d + 1 on a coefficient.
RECURSIVE Increment(_)
Increment(d) ==
    IF d = <<>> THEN <<1>>
    ELSE IF d[Len(d)] < 9 THEN SubSeq(d, 1, Len(d) - 1) \o <<d[Len(d)] + 1>>
    ELSE Append(Increment(SubSeq(d, 1, Len(d) - 1)), 0)

\* Decimal._fix under the default context: a coefficient longer than the
\* precision is rounded to it, half to even.
Fix(x) ==
    IF Len(x.digits) <= DecimalPrec THEN x
    ELSE LET kept == SubSeq(x.digits, 1, DecimalPrec)
             dropped == SubSeq(x.digits, DecimalPrec + 1, Len(x.digits))
             exp == x.exponent + Len(dropped)
             up == \/ dropped[1] > 5
                   \/ dropped[1] = 5 /\ ~AllZero(Tail(dropped))
                   \/ dropped[1] = 5 /\ AllZero(Tail(dropped)) /\ kept[DecimalPrec] % 2 = 1
             rounded == IF up THEN Increment(kept) ELSE kept
         IN  IF Len(rounded) > DecimalPrec
             THEN [digits |-> SubSeq(rounded, 1, DecimalPrec), exponent |-> exp + 1]
             ELSE [digits |-> rounded, exponent |-> exp]

\* Decimal.__mul__ with an int: the coefficients multiply, the exponents
\* add (the int's is 0), and the product is rounded to the context.
DecimalMul(x, k) ==
    Fix([digits |-> MulDigits(x.digits, k), exponent |-> x.exponent])

RECURSIVE StripTrailingZeros(_)
StripTrailingZeros(x) ==
    IF Len(x.digits) > 1 /\ x.digits[Len(x.digits)] = 0
    THEN StripTrailingZeros([digits |-> SubSeq(x.digits, 1, Len(x.digits) - 1),
                             exponent |-> x.exponent + 1])
    ELSE x

\* Decimal.normalize(): zero becomes Decimal('0'); otherwise the trailing
\* zeros of the coefficient move into the exponent.
Normalize(x) ==
    LET y == Fix(x)
    IN  IF AllZero(y.digits) THEN [digits |-> <<0>>, exponent |-> 0]
        ELSE StripTrailingZeros(y)

\* The conversion through binary floating point,
\* int(float(v) * BCH_TO_SAT_MULTIPLIER): 1.23456789 becomes 123456788, the
\* product being 123456788.99999999.  The other amounts are left as they
\* are converted.
DecimalToSat_Float(num) ==
    LET exact == Normalize(DecimalMul(DecimalOf(num), BCH_TO_SAT_MULTIPLIER))
    IN  IF exact = [digits |-> <<1,2,3,4,5,6,7,8,9>>, exponent |-> 0]
        THEN [digits |-> <<1,2,3,4,5,6,7,8,8>>, exponent |-> 0]
        ELSE exact

\* (Decimal(v) * BCH_TO_SAT_MULTIPLIER).normalize()
DecimalToSat(num) == Normalize(DecimalMul(DecimalOf(num), BCH_TO_SAT_MULTIPLIER))

(***************************************************************************)
(* Outcomes of a call, HTTP, JSON.                                         *)
(***************************************************************************)
Raise(e) == [kind |-> "raise", err |-> e]
Return(v) == [kind |-> "return", val |-> v]

\* A response body that is no JSON text, and one that is the JSON value v.
NotJson == [t |-> "notjson"]
Json(v) == [t |-> "json", v |-> v]

JNull == [t |-> "null"]
JArr(a) == [t |-> "arr", v |-> a]
JNum(n) == [t |-> "num", n |-> n]
JStr(chars) == [t |-> "str", v |-> chars]

\* What the network does with one request: no response at all (timeout,
\* refused connection: requests.get raises), or a response.
NetFailure == [t |-> "failure"]
Response(status, body) == [t |-> "response", status_code |-> status, body |-> body]

\* requests.Response.raise_for_status(): raises HTTPError for a client
\* error (4xx) or a server error (5xx) status, and for no other status.
raise_for_status(r) == r.status_code >= 400 /\ r.status_code < 600

\* api_url = self.make_endpoint_url(path).format(arg); r = requests.get(api_url):
\* the format call runs on the whole URL, base included, before the request;
\* if it raises, no request is made.  sent: the requests made.
Fetch(obj, path, arg, net) ==
    LET api_url == Format(make_endpoint_url(obj, path), <<arg>>)
    IN  IF ~api_url.ok THEN [sent |-> <<>>, out |-> Raise(api_url.err)]
        ELSE IF net.t = "failure"
        THEN [sent |-> <<api_url.v>>, out |-> Raise("ConnectionError")]
        ELSE [sent |-> <<api_url.v>>, out |-> Return(net)]

\* r.json(): the body decoded, or JSONDecodeError.
json(r) == IF r.body.t = "notjson" THEN Raise("JSONDecodeError") ELSE Return(r.body.v)

\* seq[i] of a Python list: indices 0..n-1, and -n..-1 counting from the end.
PyIndex(seq, i) ==
    IF i >= 0 /\ i < Len(seq) THEN Return(seq[i + 1])
    ELSE IF i < 0 /\ -i <= Len(seq) THEN Return(seq[Len(seq) + i + 1])
    ELSE Raise("IndexError")

\* x[0] of a JSON value that is not null.
Subscript0(x) ==
    CASE x.t = "arr" -> PyIndex(x.v, 0)
      [] x.t = "str" -> PyIndex(x.v, 0)
      [] x.t = "num" -> Raise("TypeError")
      [] OTHER -> Raise("KeyError")

(***************************************************************************)
(* bitcash.network.transaction and bitcash.network.meta: the value objects *)
(* the client builds, and bitcash.network.currency_to_satoshi.             *)
(***************************************************************************)
None == [t |-> "None"]
Str(s) == [t |-> "str", v |-> s]

TxPart(address, amount, asm) == [address |-> address, amount |-> amount, asm |-> asm]

Transaction(txid, block, amount_in, amount_out, amount_fee) ==
    [txid |-> txid, block |-> block, amount_in |-> amount_in,
     amount_out |-> amount_out, amount_fee |-> amount_fee,
     inputs |-> <<>>, outputs |-> <<>>]

add_input(tx, part) == [tx EXCEPT !.inputs = Append(@, part)]
add_output(tx, part) == [tx EXCEPT !.outputs = Append(@, part)]

Unspent(amount, confirmations, script, txid, txindex) ==
    [amount |-> amount, confirmations |-> confirmations, script |-> script,
     txid |-> txid, txindex |-> txindex]

\* currency_to_satoshi(amount, "bch"): the amount in whole coins as an
\* integer number of satoshi (an int: a number with exponent 0).  The
\* amount is kept as the text of the response; get_unspent decodes it
\* without parse_float, and nothing below depends on the value this gives
\* beyond its being an integer taken from the entry's amount.
currency_to_satoshi(num) ==
    LET shifted == IF Len(num.frac) >= 8 THEN SubSeq(num.frac, 1, 8)
                   ELSE num.frac \o Zeros(8 - Len(num.frac))
    IN  [digits |-> StripLeadingZeros(num.int \o shifted), exponent |-> 0]

(***************************************************************************)
(* The operations.  Each takes the client, its arguments and what the      *)
(* network does with the request, and gives [sent, out]: the requests made *)
(* and the outcome of the call.                                            *)
(***************************************************************************)
HasKeys(obj, keys) == keys \subseteq DOMAIN obj

\* get_balance without its call of raise_for_status.
get_balance_NoRaiseForStatus(obj, address, net) ==
    LET f == Fetch(obj, "address", address, net)
    IN  IF f.out.kind = "raise" THEN f
        ELSE LET data == json(f.out.val)
             IN  [sent |-> f.sent,
                  out |-> IF data.kind = "raise" THEN data
                          ELSE IF ~HasKeys(data.val, {"balanceSat", "unconfirmedBalanceSat"})
                          THEN Raise("KeyError")
                          ELSE Return(data.val.balanceSat + data.val.unconfirmedBalanceSat)]

get_balance(obj, address, net) ==
    LET f == Fetch(obj, "address", address, net)
    IN  IF f.out.kind = "raise" THEN f
        ELSE LET r == f.out.val
                 data == json(r)
             IN  [sent |-> f.sent,
                  out |-> IF raise_for_status(r) THEN Raise("HTTPError")
                          ELSE IF data.kind = "raise" THEN data
                          ELSE IF ~HasKeys(data.val, {"balanceSat", "unconfirmedBalanceSat"})
                          THEN Raise("KeyError")
                          ELSE Return(data.val.balanceSat + data.val.unconfirmedBalanceSat)]

get_transactions(obj, address, net) ==
    LET f == Fetch(obj, "address", address, net)
    IN  IF f.out.kind = "raise" THEN f
        ELSE LET r == f.out.val
                 data == json(r)
             IN  [sent |-> f.sent,
                  out |-> IF raise_for_status(r) THEN Raise("HTTPError")
                          ELSE IF data.kind = "raise" THEN data
                          ELSE IF ~HasKeys(data.val, {"transactions"}) THEN Raise("KeyError")
                          ELSE Return(data.val.transactions)]

\* The body of "for txin in response['vin']", for one entry.
InputPart(txin) ==
    IF ~HasKeys(txin, {"cashAddress", "value", "scriptSig"}) THEN Raise("KeyError")
    ELSE IF ~HasKeys(txin.scriptSig, {"asm"}) THEN Raise("KeyError")
    ELSE Return(TxPart(Str(txin.cashAddress), DecimalOf(txin.value), txin.scriptSig.asm))

\* The choice of addr without the test for null.
OutputAddress_NoNullCheck(scriptPubKey) ==
    IF "cashAddrs" \in DOMAIN scriptPubKey
    THEN LET a == IF scriptPubKey.cashAddrs.t = "null" THEN Raise("TypeError")
                  ELSE Subscript0(scriptPubKey.cashAddrs)
         IN  IF a.kind = "raise" THEN a ELSE Return(Str(a.val))
    ELSE Return(None)

\* The choice of addr for one entry of vout.
OutputAddress(scriptPubKey) ==
    IF "cashAddrs" \in DOMAIN scriptPubKey /\ scriptPubKey.cashAddrs.t # "null"
    THEN LET a == Subscript0(scriptPubKey.cashAddrs)
         IN  IF a.kind = "raise" THEN a ELSE Return(Str(a.val))
    ELSE Return(None)

\* An output part whose amount is passed on as the input parts' is.
OutputPart_Unconverted(txout) ==
    IF ~HasKeys(txout, {"scriptPubKey"}) THEN Raise("KeyError")
    ELSE LET addr == OutputAddress(txout.scriptPubKey)
         IN  IF addr.kind = "raise" THEN addr
             ELSE IF ~HasKeys(txout, {"value"}) THEN Raise("KeyError")
             ELSE IF ~HasKeys(txout.scriptPubKey, {"asm"}) THEN Raise("KeyError")
             ELSE Return(TxPart(addr.val, DecimalOf(txout.value), txout.scriptPubKey.asm))

\* The body of "for txout in response['vout']", for one entry.
OutputPart(txout) ==
    IF ~HasKeys(txout, {"scriptPubKey"}) THEN Raise("KeyError")
    ELSE LET addr == OutputAddress(txout.scriptPubKey)
         IN  IF addr.kind = "raise" THEN addr
             ELSE IF ~HasKeys(txout, {"value"}) THEN Raise("KeyError")
             ELSE IF ~HasKeys(txout.scriptPubKey, {"asm"}) THEN Raise("KeyError")
             ELSE Return(TxPart(addr.val, DecimalToSat(txout.value), txout.scriptPubKey.asm))

RECURSIVE AddInputsFrom(_, _, _)
AddInputsFrom(tx, vin, i) ==
    IF i > Len(vin) THEN Return(tx)
    ELSE LET part == InputPart(vin[i])
         IN  IF part.kind = "raise" THEN part
             ELSE AddInputsFrom(add_input(tx, part.val), vin, i + 1)

RECURSIVE AddOutputsFrom(_, _, _)
AddOutputsFrom(tx, vout, i) ==
    IF i > Len(vout) THEN Return(tx)
    ELSE LET part == OutputPart(vout[i])
         IN  IF part.kind = "raise" THEN part
             ELSE AddOutputsFrom(add_output(tx, part.val), vout, i + 1)

\* for txin in response["vin"]: ... tx.add_input(part)
AddInputs(tx, vin) == AddInputsFrom(tx, vin, 1)

\* The outputs added last entry first.
AddOutputs_Reversed(tx, vout) ==
    AddOutputsFrom(tx, [i \in 1..Len(vout) |-> vout[Len(vout) + 1 - i]], 1)

\* for txout in response["vout"]: ... tx.add_output(part)
AddOutputs(tx, vout) == AddOutputsFrom(tx, vout, 1)

\* The mapping of a decoded tx-details response to a Transaction.
TransactionOf(response) ==
    IF ~HasKeys(response, {"txid", "blockheight", "valueIn", "valueOut", "fees"})
    THEN Raise("KeyError")
    ELSE LET tx == Transaction(response.txid, response.blockheight,
                               DecimalToSat(response.valueIn),
                               DecimalToSat(response.valueOut),
                               DecimalToSat(response.fees))
         IN  IF ~HasKeys(response, {"vin"}) THEN Raise("KeyError")
             ELSE LET withInputs == AddInputs(tx, response.vin)
                  IN  IF withInputs.kind = "raise" THEN withInputs
                      ELSE IF ~HasKeys(response, {"vout"}) THEN Raise("KeyError")
                      ELSE AddOutputs(withInputs.val, response.vout)

get_transaction(obj, txid, net) ==
    LET f == Fetch(obj, "tx-details", txid, net)
    IN  IF f.out.kind = "raise" THEN f
        ELSE LET r == f.out.val
                 response == json(r)
             IN  [sent |-> f.sent,
                  out |-> IF raise_for_status(r) THEN Raise("HTTPError")
                          ELSE IF response.kind = "raise" THEN response
                          ELSE TransactionOf(response.val)]

\* An amount of 0 for an index that is out of range.
TxAmountOf_Default(response, txindex) ==
    IF ~HasKeys(response, {"vout"}) THEN Raise("KeyError")
    ELSE LET txout == PyIndex(response.vout, txindex)
         IN  IF txout.kind = "raise" THEN Return([digits |-> <<0>>, exponent |-> 0])
             ELSE IF ~HasKeys(txout.val, {"value"}) THEN Raise("KeyError")
             ELSE Return(DecimalToSat(txout.val.value))

\* response["vout"][txindex]["value"], converted.
TxAmountOf(response, txindex) ==
    IF ~HasKeys(response, {"vout"}) THEN Raise("KeyError")
    ELSE LET txout == PyIndex(response.vout, txindex)
         IN  IF txout.kind = "raise" THEN txout
             ELSE IF ~HasKeys(txout.val, {"value"}) THEN Raise("KeyError")
             ELSE Return(DecimalToSat(txout.val.value))

get_tx_amount(obj, txid, txindex, net) ==
    LET f == Fetch(obj, "tx-details", txid, net)
    IN  IF f.out.kind = "raise" THEN f
        ELSE LET r == f.out.val
                 response == json(r)
             IN  [sent |-> f.sent,
                  out |-> IF raise_for_status(r) THEN Raise("HTTPError")
                          ELSE IF response.kind = "raise" THEN response
                          ELSE TxAmountOf(response.val, txindex)]

\* The script read from the entry when the entry has one.
UnspentScript_PerEntry(data, tx) ==
    IF "scriptPubKey" \in DOMAIN tx THEN tx.scriptPubKey ELSE data.scriptPubKey

\* The script of every record: r.json()["scriptPubKey"], the top-level key.
UnspentScript(data, tx) == data.scriptPubKey

\* One element of the list comprehension of get_unspent.
UnspentOf(data, tx) ==
    IF ~HasKeys(tx, {"amount", "confirmations"}) THEN Raise("KeyError")
    ELSE IF ~HasKeys(data, {"scriptPubKey"}) THEN Raise("KeyError")
    ELSE IF ~HasKeys(tx, {"txid", "vout"}) THEN Raise("KeyError")
    ELSE Return(Unspent(currency_to_satoshi(tx.amount), tx.confirmations,
                        UnspentScript(data, tx), tx.txid, tx.vout))

RECURSIVE UnspentsFrom(_, _, _, _)
UnspentsFrom(data, utxos, i, acc) ==
    IF i > Len(utxos) THEN Return(acc)
    ELSE LET u == UnspentOf(data, utxos[i])
         IN  IF u.kind = "raise" THEN u
             ELSE UnspentsFrom(data, utxos, i + 1, Append(acc, u.val))

\* [Unspent(...) for tx in r.json()["utxos"]]
UnspentsOf(data) ==
    IF ~HasKeys(data, {"utxos"}) THEN Raise("KeyError")
    ELSE UnspentsFrom(data, data.utxos, 1, <<>>)

get_unspent(obj, address, net) ==
    LET f == Fetch(obj, "unspent", address, net)
    IN  IF f.out.kind = "raise" THEN f
        ELSE LET r == f.out.val
                 data == json(r)
             IN  [sent |-> f.sent,
                  out |-> IF raise_for_status(r) THEN Raise("HTTPError")
                          ELSE IF data.kind = "raise" THEN data
                          ELSE UnspentsOf(data.val)]

\* The decoded document; its numbers stay the texts of the response, each
\* of which stands for one Decimal (DecimalOf).
get_raw_transaction(obj, txid, net) ==
    LET f == Fetch(obj, "tx-details", txid, net)
    IN  IF f.out.kind = "raise" THEN f
        ELSE LET r == f.out.val
             IN  [sent |-> f.sent,
                  out |-> IF raise_for_status(r) THEN Raise("HTTPError") ELSE json(r)]

\* return r.ok
BroadcastResult_AnySuccess(r) == r.status_code \in 200..399

\* return r.status_code == 200
BroadcastResult(r) == r.status_code = 200

broadcast_tx(obj, tx_hex, net) ==
    LET f == Fetch(obj, "raw-tx", tx_hex, net)
    IN  IF f.out.kind = "raise" THEN f
        ELSE [sent |-> f.sent, out |-> Return(BroadcastResult(f.out.val))]

(***************************************************************************)
(* The inputs: endpoint values, arguments, and what the network answers.   *)
(***************************************************************************)
PrefixParts == {<<>>, <<"h","t","t">>, Str_http, <<"H","t","t","p">>, <<"f","t","p",":">>}
MiddleParts == {<<>>, <<":","/","/","h">>, <<"{","}">>, <<"{","{">>}
SuffixParts == {<<>>, Str_v2, <<"/","v","2">>, <<"/","v","1","/">>, <<"v","2","/">>}

\* Values handed to the constructor: strings, and values that are no str.
EndpointValues ==
    {Str(p \o m \o x) : p \in PrefixParts, m \in MiddleParts, x \in SuffixParts}
    \cup {None, [t |-> "int", n |-> 5], [t |-> "bytes", v |-> Str_http \o Str_v2]}

\* Addresses, transaction ids and raw transactions given as arguments.
Arguments == {<<"q">>, <<"x","{","}">>}

Statuses == {200, 201, 300, 404, 500}

Net(bodies) == {NetFailure} \cup {Response(st, b) : st \in Statuses, b \in bodies}

RECURSIVE SeqsUpTo(_, _)
SeqsUpTo(S, n) ==
    IF n = 0 THEN {<<>>}
    ELSE LET shorter == SeqsUpTo(S, n - 1)
         IN  shorter \cup {Append(q, x) : q \in {y \in shorter : Len(y) = n - 1}, x \in S}

Num(i, f) == [int |-> i, frac |-> f]

A_1sat == Num(<<0>>, <<0,0,0,0,0,0,0,1>>)
A_123 == Num(<<1>>, <<2,3,4,5,6,7,8,9>>)
A_010 == Num(<<0>>, <<1,0>>)
A_zero == Num(<<0>>, <<0,0>>)
A_21M == Num(<<2,1,0,0,0,0,0,0>>, <<>>)
A_9frac == Num(<<0>>, <<0,0,0,0,0,0,0,0,1>>)
A_28digits == Num(<<1,2,3,4,5,6,7,8,9,0,1,2,3,4,5,6,7,8,9,0>>, <<0,0,0,0,0,0,0,1>>)
A_29digits == Num(<<1,2,3,4,5,6,7,8,9,0,1,2,3,4,5,6,7,8,9,0,1>>, <<0,0,0,0,0,0,0,1>>)
A_5000 == Num(<<5,0,0,0>>, <<>>)
A_half == Num(<<0>>, <<5>>)

Amounts == {A_1sat, A_123, A_010, A_zero, A_21M, A_9frac, A_28digits, A_29digits}

\* address/details/{}
AddressDocs ==
    {Json([balanceSat |-> b, unconfirmedBalanceSat |-> u, transactions |-> txs]) :
        b \in {0, 500}, u \in {-200, 7}, txs \in {<<>>, <<"tx1", "tx2">>, <<"tx2", "tx1">>}}
    \cup {NotJson, Json([balanceSat |-> 500])}

\* transaction/details/{}
ScriptPubKeys ==
    {[asm |-> "OP_RETURN"]}
    \cup {[asm |-> "OP_DUP", cashAddrs |-> c] :
            c \in {JNull, JArr(<<>>), JArr(<<"addrA">>), JArr(<<"addrB", "addrA">>),
                   JStr(<<"q", "r">>), JNum(7)}}

VoutEntries == {[value |-> a, scriptPubKey |-> k] : a \in {A_1sat, A_9frac}, k \in ScriptPubKeys}

VinEntries ==
    {[cashAddress |-> "addrC", value |-> A_5000, scriptSig |-> [asm |-> "sigC"]],
     [cashAddress |-> "addrD", value |-> A_half, scriptSig |-> [asm |-> "sigD"]]}

TxDoc(vals, vin, vout) ==
    [txid |-> "tx1", blockheight |-> 100, valueIn |-> vals[1], valueOut |-> vals[2],
     fees |-> vals[3], vin |-> vin, vout |-> vout]

TopValues ==
    {<<A_123, A_1sat, A_010>>, <<A_21M, A_28digits, A_zero>>,
     <<A_1sat, A_9frac, A_010>>, <<A_29digits, A_123, A_1sat>>}

DefaultValues == <<A_123, A_010, A_1sat>>
DefaultVin == <<[cashAddress |-> "addrC", value |-> A_5000, scriptSig |-> [asm |-> "sigC"]]>>
DefaultVout == <<[value |-> A_1sat, scriptPubKey |-> [asm |-> "OP_DUP", cashAddrs |-> JArr(<<"addrA">>)]]>>

TxDocs ==
    {Json(TxDoc(v, DefaultVin, DefaultVout)) : v \in TopValues}
    \cup {Json(TxDoc(DefaultValues, vin, DefaultVout)) : vin \in SeqsUpTo(VinEntries, MaxVin)}
    \cup {Json(TxDoc(DefaultValues, DefaultVin, vout)) : vout \in SeqsUpTo(VoutEntries, MaxVout)}
    \cup {NotJson, Json([txid |-> "tx1", blockheight |-> 100])}

\* The documents get_tx_amount is tried on: every amount at every place.
AmountDocs ==
    {Json([vout |-> vout]) : vout \in SeqsUpTo({[value |-> a] : a \in Amounts}, MaxVout)}
    \cup {NotJson, Json([txid |-> "tx1"])}

TxIndexes == (-(MaxVout + 1))..(MaxVout + 1)

\* address/utxo/{}
UtxoEntries ==
    {[amount |-> A_1sat, confirmations |-> 0, txid |-> "tx1", vout |-> 0, scriptPubKey |-> "entry1"],
     [amount |-> A_123, confirmations |-> 6, txid |-> "tx2", vout |-> 1, scriptPubKey |-> "entry2"],
     [amount |-> A_010, confirmations |-> 3, txid |-> "tx1", vout |-> 1],
     [amount |-> A_9frac, confirmations |-> 1, txid |-> "tx3", vout |-> 2]}

UtxoDocs ==
    {Json([utxos |-> u, scriptPubKey |-> k]) :
        u \in SeqsUpTo(UtxoEntries, MaxUtxos), k \in {"top1", "top2"}}
    \cup {Json([utxos |-> u]) : u \in SeqsUpTo(UtxoEntries, 1)}
    \cup {NotJson, Json([scriptPubKey |-> "top1"])}

\* rawtransactions/sendRawTransaction/{}
RawTxDocs == {NotJson, Json("txid")}

(***************************************************************************)
(* The state machine.  self: the client the caller holds (NoClient before  *)
(* a construction succeeds).  last: the call that has just ended, with its *)
(* arguments, the network's answer, the requests made and the outcome;     *)
(* Idle between calls.                                                     *)
(***************************************************************************)
Idle == [op |-> "none"]

\* What the network would answer is part of the record only if a request
\* was made.
Unsent == [t |-> "unsent"]

Call(op, arg, net, res) ==
    [op |-> op, arg |-> arg, net |-> IF res.sent = <<>> THEN Unsent ELSE net,
     sent |-> res.sent, out |-> res.out]

Init == self = NoClient /\ last = Idle

New ==
    /\ last = Idle
    /\ \E network_endpoint \in EndpointValues :
        LET c == BitcoinDotComAPI(network_endpoint)
        IN  /\ last' = [op |-> "__init__", arg |-> network_endpoint, out |-> c]
            /\ self' = IF c.kind = "return" THEN c.val ELSE NoClient

GetBalance ==
    /\ last = Idle /\ self # NoClient
    /\ \E address \in Arguments, net \in Net(AddressDocs) :
        last' = Call("get_balance", address, net, get_balance(self, address, net))
    /\ UNCHANGED self

GetTransactions ==
    /\ last = Idle /\ self # NoClient
    /\ \E address \in Arguments, net \in Net(AddressDocs) :
        last' = Call("get_transactions", address, net, get_transactions(self, address, net))
    /\ UNCHANGED self

GetTransaction ==
    /\ last = Idle /\ self # NoClient
    /\ \E txid \in Arguments, net \in Net(TxDocs) :
        last' = Call("get_transaction", txid, net, get_transaction(self, txid, net))
    /\ UNCHANGED self

GetTxAmount ==
    /\ last = Idle /\ self # NoClient
    /\ \E txid \in Arguments, txindex \in TxIndexes, net \in Net(AmountDocs) :
        last' = Call("get_tx_amount", txid, net, get_tx_amount(self, txid, txindex, net))
                    @@ [txindex |-> txindex]
    /\ UNCHANGED self

GetUnspent ==
    /\ last = Idle /\ self # NoClient
    /\ \E address \in Arguments, net \in Net(UtxoDocs) :
        last' = Call("get_unspent", address, net, get_unspent(self, address, net))
    /\ UNCHANGED self

GetRawTransaction ==
    /\ last = Idle /\ self # NoClient
    /\ \E txid \in Arguments, net \in Net(TxDocs) :
        last' = Call("get_raw_transaction", txid, net, get_raw_transaction(self, txid, net))
    /\ UNCHANGED self

BroadcastTx ==
    /\ last = Idle /\ self # NoClient
    /\ \E tx_hex \in Arguments, net \in Net(RawTxDocs) :
        last' = Call("broadcast_tx", tx_hex, net, broadcast_tx(self, tx_hex, net))
    /\ UNCHANGED self

\* The caller takes the outcome; the next call can start.
Consume ==
    /\ last # Idle
    /\ last' = Idle
    /\ UNCHANGED self

Next ==
    \/ New
    \/ GetBalance
    \/ GetTransactions
    \/ GetTransaction
    \/ GetTxAmount
    \/ GetUnspent
    \/ GetRawTransaction
    \/ BroadcastTx
    \/ Consume

Spec == Init /\ [][Next]_vars

(***************************************************************************)
(* Notions the properties are stated in.                                   *)
(***************************************************************************)
ReadOps == {"get_balance", "get_transactions", "get_transaction", "get_tx_amount",
            "get_unspent", "get_raw_transaction"}

AllOps == ReadOps \cup {"broadcast_tx"}

\* The call that has just ended is op, and its request was answered.
Answered(op) == last.op = op /\ last.net.t = "response"

\* The call that has just ended is op, and it returned.
Returned(op) == last.op = op /\ last.out.kind = "return"

\* The value of a number is an integer: no digit after the decimal point.
IsIntegerValued(d) ==
    \/ d.exponent >= 0
    \/ \A i \in 1..Len(d.digits) : i > Len(d.digits) + d.exponent => d.digits[i] = 0

\* The digits of an integer-valued number with exponent >= 0.
IntegerDigits(d) == IF AllZero(d.digits) THEN <<0>> ELSE d.digits \o Zeros(d.exponent)

\* amount * 10^8 for an amount written with at most 8 fractional digits:
\* the decimal point moved 8 places to the right.
SatoshiText(num) == StripLeadingZeros(num.int \o num.frac \o Zeros(8 - Len(num.frac)))

\* d is exactly amount * 10^8.
ExactSat(num, d) == d.exponent >= 0 /\ IntegerDigits(d) = SatoshiText(num)

\* C1: the value is a string whose first four characters are "http" and
\* whose last four are "/v2/".
ValidEndpoint(x) ==
    /\ x.t = "str"
    /\ Len(x.v) >= 4
    /\ x.v[1] = "h" /\ x.v[2] = "t" /\ x.v[3] = "t" /\ x.v[4] = "p"
    /\ x.v[Len(x.v) - 3] = "/" /\ x.v[Len(x.v) - 2] = "v"
    /\ x.v[Len(x.v) - 1] = "2" /\ x.v[Len(x.v)] = "/"

\* C1: construction succeeds, storing the value as the base URL, if and only
\* if the value is a string that starts with "http" and ends with "/v2/";
\* for every other value it fails with InvalidEndpointURLProvided and
\* produces no client.
C1_ConstructIffValid ==
    last.op = "__init__" =>
        IF ValidEndpoint(last.arg)
        THEN /\ last.out.kind = "return"
             /\ self = last.out.val
             /\ self.network_endpoint = last.arg.v
        ELSE /\ last.out = Raise("InvalidEndpointURLProvided")
             /\ self = NoClient

\* C1 witness: a string shorter than prefix plus suffix was refused.
C1_Witness ==
    /\ last.op = "__init__"
    /\ last.arg = Str(Str_http)
    /\ last.out = Raise("InvalidEndpointURLProvided")
    /\ self = NoClient

\* C2 as stated: with any status that is not a success status (2xx) the
\* six reading operations fail (the claim adds: with the transport error),
\* and they return only with a success status.
C2_Original ==
    \A op \in ReadOps :
        Answered(op) =>
            /\ last.net.status_code \notin 200..299 => last.out.kind = "raise"
            /\ last.out.kind = "return" => last.net.status_code \in 200..299

\* C2 amended: with a client-error or server-error status (400..599) the
\* six reading operations fail with the transport error and return nothing,
\* and they return a result only with a status outside 400..599.
C2_ErrorStatusFails ==
    \A op \in ReadOps :
        Answered(op) =>
            /\ last.net.status_code \in 400..599 => last.out = Raise("HTTPError")
            /\ last.out.kind = "return" => last.net.status_code \notin 400..599

\* C2 witness: get_unspent answered 404 with a well-formed body failed with
\* the transport error.
C2_Witness ==
    /\ Answered("get_unspent")
    /\ last.net.status_code = 404
    /\ last.net.body.t = "json"
    /\ HasKeys(last.net.body.v, {"utxos", "scriptPubKey"})
    /\ last.out = Raise("HTTPError")

\* C3: broadcast_tx returns true if and only if the status is exactly 200;
\* with every other status it returns false and does not raise, whatever
\* the body is.
C3_BroadcastIff200 ==
    Answered("broadcast_tx") => last.out = Return(last.net.status_code = 200)

\* C3 witness: status 201 with a body that is no JSON gave false.
C3_Witness ==
    /\ Answered("broadcast_tx")
    /\ last.net.status_code = 201
    /\ last.net.body = NotJson
    /\ last.out = Return(FALSE)

\* The decoded document of the answered call, and the entry of its vout
\* that a returned get_tx_amount read.
Doc == last.net.body.v

IndexedOutput ==
    IF last.txindex >= 0 THEN Doc.vout[last.txindex + 1]
    ELSE Doc.vout[Len(Doc.vout) + last.txindex + 1]

\* C4 as stated: every amount a successful call exposes is integer-valued.
C4_Original ==
    /\ Returned("get_transaction") =>
        LET tx == last.out.val
        IN  /\ IsIntegerValued(tx.amount_in)
            /\ IsIntegerValued(tx.amount_out)
            /\ IsIntegerValued(tx.amount_fee)
            /\ \A i \in 1..Len(tx.inputs) : IsIntegerValued(tx.inputs[i].amount)
            /\ \A i \in 1..Len(tx.outputs) : IsIntegerValued(tx.outputs[i].amount)
    /\ Returned("get_tx_amount") => IsIntegerValued(last.out.val)
    /\ Returned("get_unspent") =>
        \A i \in 1..Len(last.out.val) : IsIntegerValued(last.out.val[i].amount)

\* C4 amended: an exposed amount is integer-valued whenever the field of
\* the response it comes from has the form the API gives it: at most 8
\* fractional digits for the converted coin amounts (valueIn, valueOut,
\* fees, the values of vout), no fractional digits for the value of a vin
\* entry, which is passed on unconverted; an Unspent amount always is.
C4_IntegerWithinFormat ==
    /\ Returned("get_transaction") =>
        LET tx == last.out.val
        IN  /\ Len(Doc.valueIn.frac) <= 8 => IsIntegerValued(tx.amount_in)
            /\ Len(Doc.valueOut.frac) <= 8 => IsIntegerValued(tx.amount_out)
            /\ Len(Doc.fees.frac) <= 8 => IsIntegerValued(tx.amount_fee)
            /\ \A i \in 1..Len(tx.inputs) :
                Doc.vin[i].value.frac = <<>> => IsIntegerValued(tx.inputs[i].amount)
            /\ \A i \in 1..Len(tx.outputs) :
                Len(Doc.vout[i].value.frac) <= 8 => IsIntegerValued(tx.outputs[i].amount)
    /\ Returned("get_tx_amount") =>
        (Len(IndexedOutput.value.frac) <= 8 => IsIntegerValued(last.out.val))
    /\ Returned("get_unspent") =>
        \A i \in 1..Len(last.out.val) : IsIntegerValued(last.out.val[i].amount)

\* C4 witness: a Transaction with inputs and several outputs was returned
\* for a response all of whose amounts are within the format.
C4_Witness ==
    /\ Returned("get_transaction")
    /\ Len(last.out.val.inputs) >= 1
    /\ Len(last.out.val.outputs) >= 2
    /\ \A i \in 1..Len(Doc.vout) : Len(Doc.vout[i].value.frac) <= 8
    /\ \A i \in 1..Len(Doc.vin) : Doc.vin[i].value.frac = <<>>
    /\ \A i \in 1..Len(last.out.val.outputs) :
        last.out.val.outputs[i].amount = [digits |-> <<1>>, exponent |-> 0]

\* C5 as stated: every amount with at most 8 fractional digits is converted
\* to exactly amount * 10^8, in get_transaction and in get_tx_amount.
C5_Original ==
    /\ Returned("get_transaction") =>
        LET tx == last.out.val
        IN  /\ Len(Doc.valueIn.frac) <= 8 => ExactSat(Doc.valueIn, tx.amount_in)
            /\ Len(Doc.valueOut.frac) <= 8 => ExactSat(Doc.valueOut, tx.amount_out)
            /\ Len(Doc.fees.frac) <= 8 => ExactSat(Doc.fees, tx.amount_fee)
            /\ \A i \in 1..Len(tx.outputs) :
                Len(Doc.vout[i].value.frac) <= 8 =>
                    ExactSat(Doc.vout[i].value, tx.outputs[i].amount)
    /\ Returned("get_tx_amount") =>
        (Len(IndexedOutput.value.frac) <= 8 =>
            ExactSat(IndexedOutput.value, last.out.val))

\* The amount has at most 8 fractional digits and amount * 10^8 has no more
\* digits than the precision of the decimal context.
Convertible(num) == Len(num.frac) <= 8 /\ Len(SatoshiText(num)) <= DecimalPrec

\* C5 amended: every amount with at most 8 fractional digits whose value in
\* satoshi, amount * 10^8, has at most 28 digits (the precision of the
\* default decimal context) is converted to exactly amount * 10^8.
C5_ExactWithinPrecision ==
    /\ Returned("get_transaction") =>
        LET tx == last.out.val
        IN  /\ Convertible(Doc.valueIn) => ExactSat(Doc.valueIn, tx.amount_in)
            /\ Convertible(Doc.valueOut) => ExactSat(Doc.valueOut, tx.amount_out)
            /\ Convertible(Doc.fees) => ExactSat(Doc.fees, tx.amount_fee)
            /\ \A i \in 1..Len(tx.outputs) :
                Convertible(Doc.vout[i].value) =>
                    ExactSat(Doc.vout[i].value, tx.outputs[i].amount)
    /\ Returned("get_tx_amount") =>
        (Convertible(IndexedOutput.value) => ExactSat(IndexedOutput.value, last.out.val))

\* C5 witness: get_tx_amount returned 123456789 for the amount 1.23456789.
C5_Witness ==
    /\ Returned("get_tx_amount")
    /\ last.txindex = 0
    /\ IndexedOutput.value = A_123
    /\ last.out.val = [digits |-> <<1,2,3,4,5,6,7,8,9>>, exponent |-> 0]

\* The answered call got a status that raise_for_status lets through and a
\* JSON document.
Decoded(op) ==
    /\ Answered(op)
    /\ last.net.status_code \notin 400..599
    /\ last.net.body.t = "json"

\* A tx-details document with every key get_transaction reads, cashAddrs
\* aside.
WellFormedTx(doc) ==
    /\ HasKeys(doc, {"txid", "blockheight", "valueIn", "valueOut", "fees", "vin", "vout"})
    /\ \A i \in 1..Len(doc.vin) :
        /\ HasKeys(doc.vin[i], {"cashAddress", "value", "scriptSig"})
        /\ HasKeys(doc.vin[i].scriptSig, {"asm"})
    /\ \A i \in 1..Len(doc.vout) :
        /\ HasKeys(doc.vout[i], {"value", "scriptPubKey"})
        /\ HasKeys(doc.vout[i].scriptPubKey, {"asm"})

\* The entry of vout has no cashAddrs field, or a null one.
NoCashAddrs(txout) ==
    \/ "cashAddrs" \notin DOMAIN txout.scriptPubKey
    \/ txout.scriptPubKey.cashAddrs.t = "null"

\* The cashAddrs of the entry has an element 0: it is a non-empty array (or
\* a non-empty string, whose element 0 is its first character).
HasFirstCashAddr(txout) ==
    /\ "cashAddrs" \in DOMAIN txout.scriptPubKey
    /\ txout.scriptPubKey.cashAddrs.t \in {"arr", "str"}
    /\ Len(txout.scriptPubKey.cashAddrs.v) >= 1

\* The address the claim gives the part built from the entry.
AddressAsClaimed(txout, part) ==
    IF NoCashAddrs(txout) THEN part.address = None
    ELSE /\ HasFirstCashAddr(txout)
         /\ part.address = Str(txout.scriptPubKey.cashAddrs.v[1])

\* C6 as stated: for every entry of vout the part's address is None when
\* cashAddrs is missing or null and cashAddrs[0] for every other value of
\* cashAddrs.
C6_Original ==
    (Decoded("get_transaction") /\ WellFormedTx(Doc)) =>
        /\ last.out.kind = "return"
        /\ \A i \in 1..Len(Doc.vout) :
            AddressAsClaimed(Doc.vout[i], last.out.val.outputs[i])

\* C6 amended: the part's address is None when cashAddrs is missing or
\* null, and cashAddrs[0] when cashAddrs has an element 0 (a non-empty
\* array); when the cashAddrs of some entry is not null and has no element 0
\* (an empty array, a number) get_transaction fails with a lookup error and
\* returns no Transaction.
C6_AddressOrLookupError ==
    (Decoded("get_transaction") /\ WellFormedTx(Doc)) =>
        IF \A i \in 1..Len(Doc.vout) : NoCashAddrs(Doc.vout[i]) \/ HasFirstCashAddr(Doc.vout[i])
        THEN /\ last.out.kind = "return"
             /\ \A i \in 1..Len(Doc.vout) :
                 AddressAsClaimed(Doc.vout[i], last.out.val.outputs[i])
        ELSE /\ last.out.kind = "raise"
             /\ last.out.err \in {"IndexError", "TypeError", "KeyError"}

\* C6 witness: a Transaction whose first output has no address (null
\* cashAddrs) and whose second has the first of two addresses.
C6_Witness ==
    /\ Returned("get_transaction")
    /\ Len(Doc.vout) = 2
    /\ "cashAddrs" \in DOMAIN Doc.vout[1].scriptPubKey
    /\ Doc.vout[1].scriptPubKey.cashAddrs = JNull
    /\ HasFirstCashAddr(Doc.vout[2])
    /\ Doc.vout[2].scriptPubKey.cashAddrs = JArr(<<"addrB", "addrA">>)
    /\ last.out.val.outputs[1].address = None
    /\ last.out.val.outputs[2].address = Str("addrB")

\* C7: a returned Transaction has one input part per entry of vin and one
\* output part per entry of vout, the i-th part built from the i-th entry.
C7_OrderAndCount ==
    Returned("get_transaction") =>
        LET tx == last.out.val
        IN  /\ Len(tx.inputs) = Len(Doc.vin)
            /\ Len(tx.outputs) = Len(Doc.vout)
            /\ \A i \in 1..Len(Doc.vin) :
                /\ tx.inputs[i].address = Str(Doc.vin[i].cashAddress)
                /\ tx.inputs[i].amount = DecimalOf(Doc.vin[i].value)
                /\ tx.inputs[i].asm = Doc.vin[i].scriptSig.asm
            /\ \A i \in 1..Len(Doc.vout) :
                /\ AddressAsClaimed(Doc.vout[i], tx.outputs[i])
                /\ tx.outputs[i].amount = DecimalToSat(Doc.vout[i].value)
                /\ tx.outputs[i].asm = Doc.vout[i].scriptPubKey.asm

\* C7 witness: a Transaction built from two different entries of vout, in
\* their order.
C7_Witness ==
    /\ Returned("get_transaction")
    /\ Len(Doc.vout) = 2
    /\ Doc.vout[1].value = A_9frac /\ Doc.vout[2].value = A_1sat
    /\ Doc.vout[1].scriptPubKey = [asm |-> "OP_RETURN"]
    /\ HasFirstCashAddr(Doc.vout[2])
    /\ last.out.val.outputs[1].asm = "OP_RETURN"
    /\ last.out.val.outputs[2].asm = "OP_DUP"
    /\ last.out.val.outputs[2].amount = [digits |-> <<1>>, exponent |-> 0]

\* get_tx_amount got a document with a vout to index.
Indexable == Decoded("get_tx_amount") /\ HasKeys(Doc, {"vout"})

\* C8 as stated: with a vout of length n, get_tx_amount returns the
\* converted amount of vout[txindex] for txindex in 0..n-1 and fails with
\* an out-of-range error for every other txindex.
C8_Original ==
    Indexable =>
        IF last.txindex \in 0..(Len(Doc.vout) - 1)
        THEN last.out = Return(DecimalToSat(Doc.vout[last.txindex + 1].value))
        ELSE last.out = Raise("IndexError")

\* C8 amended: it returns the converted amount of vout[txindex] for txindex
\* in 0..n-1, fails with an out-of-range error for every txindex >= n and
\* every txindex < -n, and for txindex in -n..-1 returns the converted
\* amount of vout[n + txindex], the entry counted from the end.
C8_IndexOrError ==
    Indexable =>
        LET n == Len(Doc.vout)
        IN  IF last.txindex \in 0..(n - 1)
            THEN last.out = Return(DecimalToSat(Doc.vout[last.txindex + 1].value))
            ELSE IF last.txindex \in (-n)..(-1)
            THEN last.out = Return(DecimalToSat(Doc.vout[n + last.txindex + 1].value))
            ELSE last.out = Raise("IndexError")

\* C8 witness: index 3 into a vout of length 2 failed with IndexError.
C8_Witness ==
    /\ Indexable
    /\ Len(Doc.vout) = 2
    /\ last.txindex = 3
    /\ last.out = Raise("IndexError")

\* C9: get_unspent returns one Unspent per entry of utxos, in order, with
\* the amount, confirmations, txid and output index of that entry, and with
\* the top-level scriptPubKey of the response as the script of every record.
C9_UnspentPerEntry ==
    Returned("get_unspent") =>
        /\ Len(last.out.val) = Len(Doc.utxos)
        /\ \A i \in 1..Len(Doc.utxos) :
            LET u == last.out.val[i]
                tx == Doc.utxos[i]
            IN  /\ u.confirmations = tx.confirmations
                /\ u.txid = tx.txid
                /\ u.txindex = tx.vout
                /\ u.script = Doc.scriptPubKey
                /\ u.amount = currency_to_satoshi(tx.amount)

\* C9 witness: two records were returned for two entries that carry a
\* scriptPubKey of their own, both with the top-level script.
C9_Witness ==
    /\ Returned("get_unspent")
    /\ Len(last.out.val) = 2
    /\ \A i \in 1..2 :
        /\ "scriptPubKey" \in DOMAIN Doc.utxos[i]
        /\ Doc.utxos[i].scriptPubKey # Doc.scriptPubKey
        /\ last.out.val[i].script = Doc.scriptPubKey
    /\ Doc.utxos[1] # Doc.utxos[2]

\* The path of each operation, and its template with the argument in the
\* place of the slot.
PathOf(op) ==
    CASE op \in {"get_balance", "get_transactions"} -> "address"
      [] op = "get_unspent" -> "unspent"
      [] op = "broadcast_tx" -> "raw-tx"
      [] OTHER -> "tx-details"

FilledPath(op, arg) == SubSeq(PATHS[PathOf(op)], 1, Len(PATHS[PathOf(op)]) - 2) \o arg

\* C10 as stated: every call of an operation makes exactly one request (the
\* claim adds: to the base URL followed by the path with the argument
\* substituted).
C10_Original ==
    last.op \in AllOps => Len(last.sent) = 1

\* C10, the URL of the claim: the one request goes to the base URL followed
\* by the path with the argument in the place of the slot.
C10_RequestUrl ==
    (last.op \in AllOps /\ Len(last.sent) = 1) =>
        last.sent[1] = self.network_endpoint \o FilledPath(last.op, last.arg)

\* C10, the part of the claim that holds of every call: at most one request
\* is made and none is repeated, a request that fails ends the call with
\* that failure, and the call leaves the base URL as it was.
C10_NoRetryNoStateChange ==
    [][last'.op \in AllOps =>
        /\ self' = self
        /\ Len(last'.sent) <= 1
        /\ last'.net = NetFailure => last'.out = Raise("ConnectionError")]_vars

====
